---- MODULE Spec2Model ----
(***************************************************************************)
(* Model of the XL object layer (xl-objects.go): PutObject, GetObject,     *)
(* GetObjectInfo, DeleteObject over the storage abstraction.  Every call   *)
(* into the storage layer is one atomic step of the calling client, so     *)
(* concurrent clients interleave between storage calls.                    *)
(***************************************************************************)
EXTENDS Integers, Sequences, FiniteSets, TLC

\* ------------------------------------------------------------------ bounds
MaxFaults == 1
MaxPartSize == 2
MaxDisks == 2

Procs == {1, 2}
Objects == {"a", "a/b"}
Payloads == {<< >>, <<2, 1>>}
Sizes == {-1, 0, 1, 2}
PartNums == {1, 2}
PartConfigs == {<<s>> : s \in 1..MaxPartSize} \cup {<<s, 1>> : s \in 1..MaxPartSize}
Offsets == 0..(MaxPartSize + 2)
Disks == 1..MaxDisks
\* the disk lists a startup may be given on the command line
ExportPaths == UNION {[1..n -> Disks] : n \in 1..MaxDisks}

\* ------------------------------------------------------------- error values
NoErr == "nil"
errFileNotFound == "errFileNotFound"
errUnexpected == "errUnexpected"
errFileAccessDenied == "errFileAccessDenied"
errFault == "errFault"
errEOF == "unexpected EOF"
BadDigest == "BadDigest"
ObjectNotFound == "ObjectNotFound"
BucketNameInvalid == "BucketNameInvalid"
BucketNotFound == "BucketNotFound"
ObjectNameInvalid == "ObjectNameInvalid"
errReadQuorum == "errReadQuorum"
errDiskNotFound == "errDiskNotFound"
errVolumeAccessDenied == "errVolumeAccessDenied"
errQuorumMsg == "Not all disks are available, did not meet read quroum."
errDisksMsg == "Disks not found."
errAccessMsg == "Disks access permission denied."
errArgsMsg == "Command-line arguments is not valid."

\* a file of the store: present with its bytes, or absent
File(d) == [ok |-> TRUE, data |-> d]
NoFile == [ok |-> FALSE, data |-> << >>]
\* metadata carrying no md5Sum (md5Hex stays "")
NoMD5 == 0
\* the zero FileInfo: what StatFile leaves in fi when it fails
NoFileInfo == [Size |-> 0, ModTime |-> "", MD5Sum |-> NoMD5]
\* a decoded multipart descriptor, or its absence
NoDesc == [ok |-> FALSE, Parts |-> << >>, Size |-> 0, ModTime |-> "", MD5Sum |-> NoMD5]
Root == "."
\* format.json: absent, or the version and the ordered disks it records
NoFormat == [ok |-> FALSE, Version |-> "", Disks |-> << >>]
\* the xlFormat newXLObjects saves: Version "1", Disks exportPaths
MkFormat(exportPaths) == [ok |-> TRUE, Version |-> "1", Disks |-> exportPaths]

VARIABLES
  simple,   \* simple[o]: content of the file at bucket/o, or NoFile
  desc,     \* desc[o]: decoded descriptor at bucket/o/00000.minio.multipart, or NoFile
  parts,    \* parts[o][n]: content of bucket/o/<part n>, or NoFile
  tmp,      \* tmp[o]: content of the staging file .minio/tmp/bucket/o, or NoFile
  pc,       \* pc[p]: position of client p inside its current call
  op,       \* op[p]: arguments, locals and result of client p's current call
  faults,   \* number of backend faults injected so far
  renamed,  \* renamed[o]: the client whose RenameFile onto bucket/o succeeded last, or 0
  format    \* the persisted format.json of the disk set, or NoFormat

vars == <<simple, desc, parts, tmp, pc, op, faults, renamed, format>>

\* ------------------------------------------------------------ pure helpers
RECURSIVE Hash(_)
\* md5.New() / md5Writer.Sum / hex.EncodeToString: an injective digest of the bytes written
Hash(s) == IF s = << >> THEN 1 ELSE Hash(SubSeq(s, 1, Len(s) - 1)) * 100 + s[Len(s)]

\* path.Dir(object)
Parent(o) == IF o = "a/b" THEN "a" ELSE Root

\* bytes of s from offset off (0-based) to the end: what a stream opened at off yields
Suffix(s, off) == IF off >= Len(s) THEN << >> ELSE SubSeq(s, off + 1, Len(s))

\* content of the part file with the given part number and size
PartData(n, size) == [i \in 1..size |-> 10 * n + i]

RECURSIVE SumSizes(_)
SumSizes(ps) == IF ps = << >> THEN 0 ELSE ps[1].Size + SumSizes(Tail(ps))

\* the descriptor completeMultipartUpload writes for parts of the given sizes
MkDesc(cfg) == [ok |-> TRUE, Parts |-> [i \in 1..Len(cfg) |-> [PartNumber |-> i, Size |-> cfg[i]]],
                Size |-> SumSizes([i \in 1..Len(cfg) |-> [Size |-> cfg[i]]]),
                ModTime |-> "completed", MD5Sum |-> Hash(cfg)]

NoParts == [n \in PartNums |-> NoFile]

\* toObjectErr: backend errors translated for the caller
toObjectErr(e) == IF e = errFileNotFound THEN ObjectNotFound ELSE e

\* what is at bucket/o, seen from outside
ObjState(o) ==
  IF simple[o].ok /\ ~desc[o].ok THEN "simple"
  ELSE IF desc[o].ok /\ ~simple[o].ok
            /\ \A i \in 1..Len(desc[o].Parts) : parts[o][desc[o].Parts[i].PartNumber].ok
       THEN "multipart"
  ELSE IF ~simple[o].ok /\ ~desc[o].ok /\ parts[o] = NoParts THEN "absent"
  ELSE "mixed"

\* ------------------------------------------------------------ client state
NoPrev == [kind |-> "none", obj |-> "", err |-> NoErr, ret |-> 0, data |-> << >>,
           size |-> 0, md5 |-> NoMD5, pre |-> "absent", flt |-> FALSE]

IdleOp == [kind |-> "none", obj |-> "", data |-> << >>, size |-> 0, md5 |-> NoMD5,
           off |-> 0, buf |-> << >>, wopen |-> FALSE, err |-> NoErr, ret |-> 0,
           info |-> << >>, todo |-> {}, errs |-> << >>, pidx |-> 0, poff |-> 0,
           out |-> << >>, st |-> "none", serr |-> NoErr, pre |-> "absent", flt |-> FALSE,
           prev |-> NoPrev, track |-> FALSE, paths |-> << >>,
           ropen |-> {}, rrem |-> << >>, pipe |-> << >>, prod |-> "none", cons |-> "none",
           nm |-> [bucket |-> TRUE, exists |-> TRUE, object |-> TRUE], calls |-> 0,
           fi |-> NoFileInfo]

\* what is remembered of a completed call: its kind and error, and the arguments
\* and result of a PutObject that succeeded
Summary(r) ==
  IF r.kind = "put" /\ r.err = NoErr
    THEN [kind |-> r.kind, obj |-> r.obj, err |-> r.err, ret |-> r.ret, data |-> r.data,
          size |-> r.size, md5 |-> r.md5, pre |-> r.pre, flt |-> r.flt]
    ELSE [NoPrev EXCEPT !.kind = r.kind, !.obj = r.obj, !.err = r.err, !.pre = r.pre,
                        !.flt = r.flt]

\* the inputs a single client draws its calls from, those of a client writing
\* below an object's path, and those of racing clients
Rich == [objs |-> {"a"}, puts |-> {"a"}, datas |-> Payloads, sizes |-> Sizes,
         md5s |-> {NoMD5, Hash(<<2>>)}, cfgs |-> PartConfigs, offs |-> Offsets,
         track |-> TRUE]
Tree == [objs |-> {"a"}, puts |-> Objects, datas |-> {<<2, 1>>}, sizes |-> {0},
         md5s |-> {NoMD5}, cfgs |-> {<<1>>}, offs |-> {0}, track |-> TRUE]
Small == [objs |-> {"a"}, puts |-> {"a"}, datas |-> {<<1>>, <<2, 1>>}, sizes |-> {0},
          md5s |-> {NoMD5}, cfgs |-> {<<1>>}, offs |-> {0}, track |-> FALSE]

\* a backend call may fail while the fault budget lasts
FaultChoices == IF faults < MaxFaults THEN {FALSE, TRUE} ELSE {FALSE}

\* getMultipartObjectInfo read the descriptor: its stream r (stream 0, the
\* part-zero file) was opened by ReadFile and is not closed before the return
DescRead(rec) == [rec EXCEPT !.ropen = @ \cup {0}]

Resting(p) == pc[p] \in {"idle", "done"}
\* the record a call by p starts from; a single client remembers its previous call
NewOp(p, U, kind, o) ==
  IF U.track
    THEN [IdleOp EXCEPT !.kind = kind, !.obj = o, !.pre = ObjState(o),
                        !.prev = IF pc[p] = "done" THEN Summary(op[p]) ELSE NoPrev,
                        !.track = TRUE]
    ELSE [IdleOp EXCEPT !.kind = kind, !.obj = o]

Begin(p, rec, at) ==
  /\ Resting(p)
  /\ pc' = [pc EXCEPT ![p] = at]
  /\ op' = [op EXCEPT ![p] = rec]

\* p's call returns err / ret; rec is its record before returning
Finish(p, rec, err, ret) ==
  /\ pc' = [pc EXCEPT ![p] = "done"]
  /\ op' = [op EXCEPT ![p] = [rec EXCEPT !.err = err, !.ret = ret, !.buf = << >>,
                                          !.info = << >>, !.todo = {}]]

Goto(p, rec, at) ==
  /\ pc' = [pc EXCEPT ![p] = at]
  /\ op' = [op EXCEPT ![p] = rec]

Fault(f, rec) == IF f /\ rec.track THEN [rec EXCEPT !.flt = TRUE] ELSE rec
Count(f) == faults' = IF f THEN faults + 1 ELSE faults

Init ==
  /\ simple = [o \in Objects |-> NoFile]
  /\ desc = [o \in Objects |-> NoDesc]
  /\ parts = [o \in Objects |-> NoParts]
  /\ tmp = [o \in Objects |-> NoFile]
  /\ pc = [p \in Procs |-> "idle"]
  /\ op = [p \in Procs |-> IdleOp]
  /\ faults = 0
  /\ renamed = [o \in Objects |-> 0]
  /\ format = MkFormat(<<1>>)

\* ------------------------------------------------------------- PutObject
\* safeCloseAndRemove(fileWriter) and the return that follows it: the staged
\* bytes are discarded, or the cleanup itself fails and its error is returned.
\* used: faults already injected by the step that calls it.
CleanupAndFail(p, rec, err, used) ==
  \E c \in IF faults + used < MaxFaults THEN {FALSE, TRUE} ELSE {FALSE} :
    /\ faults' = faults + used + (IF c THEN 1 ELSE 0)
    /\ IF c THEN Finish(p, Fault(c, rec), toObjectErr(errFault), 0)
            ELSE Finish(p, [rec EXCEPT !.wopen = FALSE, !.buf = << >>], err, 0)

\* PutObject called: names are valid and the bucket exists
PutStart(p, U) ==
  \E o \in U.puts, d \in U.datas, n \in U.sizes, m \in U.md5s :
    /\ Begin(p, [NewOp(p, U, "put", o) EXCEPT !.data = d, !.size = n, !.md5 = m], "put_create")
    /\ UNCHANGED <<simple, desc, parts, tmp, faults, renamed, format>>

\* storage.CreateFile(minioMetaBucket, tempObj)
PutCreate(p) ==
  /\ pc[p] = "put_create"
  /\ \E f \in FaultChoices :
       /\ Count(f)
       /\ IF f THEN Finish(p, Fault(f, op[p]), toObjectErr(errFault), 0)
               ELSE Goto(p, [op[p] EXCEPT !.wopen = TRUE, !.buf = << >>], "put_copy")
  /\ UNCHANGED <<simple, desc, parts, tmp, renamed, format>>

\* the error of io.CopyN(multiWriter, data, size) / io.Copy(multiWriter, data)
CopyErr(size, data) == IF size > 0 /\ Len(data) < size THEN errEOF ELSE NoErr

\* faulty variant: the copy ignores size
Copied_Whole(size, data) == data

\* faulty variant: the bounded copy stops one byte early
Copied_OneShort(size, data) == IF size > 0 THEN SubSeq(data, 1, size - 1) ELSE data

\* the bytes io.CopyN / io.Copy writes to the md5 writer and the staging writer
Copied(size, data) == IF size > 0 THEN SubSeq(data, 1, size) ELSE data

\* the size-bounded or unbounded copy into the md5 writer and the staging writer
PutCopy(p) ==
  /\ pc[p] = "put_copy"
  /\ \E f \in FaultChoices :
       LET rec == Fault(f, op[p])
           err == IF f THEN errFault ELSE CopyErr(rec.size, rec.data)
       IN IF err # NoErr
            THEN CleanupAndFail(p, rec, toObjectErr(err), IF f THEN 1 ELSE 0)
            ELSE /\ Goto(p, [rec EXCEPT !.buf = Copied(rec.size, rec.data)], "put_close")
                 /\ UNCHANGED faults
  /\ UNCHANGED <<simple, desc, parts, tmp, renamed, format>>

\* faulty variant: the supplied md5Sum is never compared
DigestMismatch_Skipped(md5Hex, newMD5Hex) == FALSE

\* md5Hex != "" && newMD5Hex != md5Hex
DigestMismatch(md5Hex, newMD5Hex) == md5Hex # NoMD5 /\ newMD5Hex # md5Hex

\* the digest comparison, then fileWriter.Close(), which commits the staged file
PutClose(p) ==
  /\ pc[p] = "put_close"
  /\ LET o == op[p].obj
         newMD5Hex == Hash(op[p].buf)
     IN IF DigestMismatch(op[p].md5, newMD5Hex)
          THEN /\ CleanupAndFail(p, op[p], BadDigest, 0)
               /\ UNCHANGED tmp
          ELSE \E f \in FaultChoices :
                 IF f THEN /\ CleanupAndFail(p, Fault(f, op[p]), toObjectErr(errFault), 1)
                           /\ UNCHANGED tmp
                      ELSE /\ tmp' = [tmp EXCEPT ![o] = File(op[p].buf)]
                           /\ Goto(p, [op[p] EXCEPT !.wopen = FALSE, !.buf = << >>,
                                                    !.ret = newMD5Hex], "put_parent")
                           /\ UNCHANGED faults
  /\ UNCHANGED <<simple, desc, parts, renamed, format>>

\* parentDirIsObject: an existing object on an ancestor path segment
ParentIsObject(o) == Parent(o) # Root /\ (simple[Parent(o)].ok \/ desc[Parent(o)].ok)

\* xl.parentDirIsObject(bucket, path.Dir(object)); on error PutObject returns at once
PutParent(p) ==
  /\ pc[p] = "put_parent"
  /\ \E f \in IF Parent(op[p].obj) = Root THEN {FALSE} ELSE FaultChoices :
       /\ Count(f)
       /\ IF f THEN Finish(p, Fault(f, op[p]), toObjectErr(errFault), 0)
          ELSE IF ParentIsObject(op[p].obj)
                 THEN Finish(p, op[p], toObjectErr(errFileAccessDenied), 0)
                 ELSE Goto(p, op[p], "del_ismp")
  /\ UNCHANGED <<simple, desc, parts, tmp, renamed, format>>

\* faulty variant: the rename follows whatever deleteObject returned
PutDeleteFailed_Never(err) == FALSE

\* err != nil && err != errFileNotFound after xl.deleteObject in PutObject
PutDeleteFailed(err) == err # NoErr /\ err # errFileNotFound

\* deleteObject returns err to its caller: DeleteObject returns it translated,
\* PutObject returns it or goes on to the rename
DelReturn(p, rec, err) ==
  IF rec.kind = "put"
    THEN IF PutDeleteFailed(err) THEN Finish(p, rec, toObjectErr(err), 0)
                                 ELSE Goto(p, rec, "put_rename")
    ELSE Finish(p, rec, toObjectErr(err), 0)

\* storage.RenameFile(minioMetaBucket, tempObj, bucket, object)
PutRename(p) ==
  /\ pc[p] = "put_rename"
  /\ LET o == op[p].obj
     IN \E f \in FaultChoices :
          /\ Count(f)
          /\ IF f \/ ~tmp[o].ok
               THEN /\ Goto(p, [Fault(f, op[p]) EXCEPT !.err = IF f THEN errFault ELSE errFileNotFound],
                            "put_rmtmp")
                    /\ UNCHANGED <<simple, tmp, renamed>>
               ELSE /\ simple' = [simple EXCEPT ![o] = tmp[o]]
                    /\ tmp' = [tmp EXCEPT ![o] = NoFile]
                    /\ renamed' = [renamed EXCEPT ![o] = p]
                    /\ Finish(p, op[p], NoErr, op[p].ret)
  /\ UNCHANGED <<desc, parts, format>>

\* storage.DeleteFile(minioMetaBucket, tempObj) after a failed rename
PutRmTmp(p) ==
  /\ pc[p] = "put_rmtmp"
  /\ LET o == op[p].obj
     IN \E f \in FaultChoices :
          /\ Count(f)
          /\ IF f THEN /\ Finish(p, Fault(f, op[p]), toObjectErr(errFault), 0)
                       /\ UNCHANGED tmp
             ELSE IF ~tmp[o].ok
                    THEN /\ Finish(p, op[p], toObjectErr(errFileNotFound), 0)
                         /\ UNCHANGED tmp
                    ELSE /\ tmp' = [tmp EXCEPT ![o] = NoFile]
                         /\ Finish(p, op[p], toObjectErr(op[p].err), 0)
  /\ UNCHANGED <<simple, desc, parts, renamed, format>>

\* ---------------------------------------------------------- deleteObject
\* isMultipartObject: storage.StatFile of the descriptor file
DelIsMp(p) ==
  /\ pc[p] = "del_ismp"
  /\ \E f \in FaultChoices :
       /\ Count(f)
       /\ IF f THEN DelReturn(p, Fault(f, op[p]), errFault)
          ELSE IF desc[op[p].obj].ok THEN Goto(p, op[p], "del_info")
          ELSE Goto(p, op[p], "del_simple")
  /\ UNCHANGED <<simple, desc, parts, tmp, renamed, format>>

\* storage.DeleteFile(bucket, object) of a simple object
DelSimple(p) ==
  /\ pc[p] = "del_simple"
  /\ LET o == op[p].obj
     IN \E f \in FaultChoices :
          /\ Count(f)
          /\ IF f THEN /\ DelReturn(p, Fault(f, op[p]), errFault)
                       /\ UNCHANGED simple
             ELSE IF ~simple[o].ok
                    THEN /\ DelReturn(p, op[p], errFileNotFound)
                         /\ UNCHANGED simple
                    ELSE /\ simple' = [simple EXCEPT ![o] = NoFile]
                         /\ DelReturn(p, op[p], NoErr)
  /\ UNCHANGED <<desc, parts, tmp, renamed, format>>

\* getMultipartObjectInfo, then one goroutine started per part
DelInfo(p) ==
  /\ pc[p] = "del_info"
  /\ LET o == op[p].obj
     IN \E f \in FaultChoices :
          /\ Count(f)
          /\ IF f THEN DelReturn(p, Fault(f, op[p]), errFault)
             ELSE IF ~desc[o].ok THEN DelReturn(p, op[p], errFileNotFound)
             ELSE Goto(p, [DescRead(op[p]) EXCEPT !.info = desc[o].Parts,
                                        !.todo = 1..Len(desc[o].Parts),
                                        !.errs = [i \in 1..Len(desc[o].Parts) |-> NoErr]],
                       "del_parts")
  /\ UNCHANGED <<simple, desc, parts, tmp, renamed, format>>

\* one part goroutine: errs[index] = storage.DeleteFile(bucket, object/part); wg.Done()
DelPart(p) ==
  /\ pc[p] = "del_parts"
  /\ \E i \in op[p].todo :
       LET o == op[p].obj
           n == op[p].info[i].PartNumber
       IN \E f \in FaultChoices :
            LET e == IF f THEN errFault
                     ELSE IF ~parts[o][n].ok THEN errFileNotFound ELSE NoErr
            IN /\ Count(f)
               /\ parts' = IF e = NoErr THEN [parts EXCEPT ![o][n] = NoFile] ELSE parts
               /\ Goto(p, [Fault(f, op[p]) EXCEPT !.todo = @ \ {i}, !.errs[i] = e], "del_parts")
  /\ UNCHANGED <<simple, desc, tmp, renamed, format>>

\* wg.Wait() returns: every part goroutine has called wg.Done()
AllPartsJoined(rec) == rec.todo = {}

\* faulty variant: the loop tests err == nil
AnyPartFailed_Inverted(errs) == \E i \in DOMAIN errs : errs[i] = NoErr

\* faulty variant: the loop over errs is skipped
AnyPartFailed_Never(errs) == FALSE

\* the loop over errs finds a non-nil error
AnyPartFailed(errs) == \E i \in DOMAIN errs : errs[i] # NoErr

\* faulty variant: the first part error is returned as it is
PartsError_First(errs) == errs[CHOOSE i \in DOMAIN errs : errs[i] # NoErr]

\* what deleteObject returns when a part deletion failed
PartsError(errs) == errUnexpected

\* after wg.Wait(): errUnexpected if a part failed, else the descriptor is deleted
DelDesc(p) ==
  /\ pc[p] = "del_parts"
  /\ AllPartsJoined(op[p])
  /\ LET o == op[p].obj
     IN IF AnyPartFailed(op[p].errs)
          THEN /\ DelReturn(p, op[p], PartsError(op[p].errs))
               /\ UNCHANGED <<desc, faults>>
          ELSE \E f \in FaultChoices :
                 /\ Count(f)
                 /\ IF f THEN /\ DelReturn(p, Fault(f, op[p]), errFault)
                              /\ UNCHANGED desc
                    ELSE IF ~desc[o].ok
                           THEN /\ DelReturn(p, op[p], errFileNotFound)
                                /\ UNCHANGED desc
                           ELSE /\ desc' = [desc EXCEPT ![o] = NoDesc]
                                /\ DelReturn(p, op[p], NoErr)
  /\ UNCHANGED <<simple, parts, tmp, renamed, format>>

\* DeleteObject called: names are valid and the bucket exists
DeleteStart(p, U) ==
  \E o \in U.objs :
    /\ Begin(p, NewOp(p, U, "delete", o), "del_ismp")
    /\ UNCHANGED <<simple, desc, parts, tmp, faults, renamed, format>>

\* -------------------------------------------------------------- GetObject
RECURSIVE LocateFrom(_, _, _)
\* GetPartNumberOffset: forward scan over the parts; index and residual offset of
\* the part owning the offset, past the last part when the offset is the total size
LocateFrom(ps, i, off) ==
  IF i > Len(ps)
    THEN [idx |-> i, off |-> 0, err |-> IF off = 0 THEN NoErr ELSE errUnexpected]
    ELSE IF off < ps[i].Size THEN [idx |-> i, off |-> off, err |-> NoErr]
    ELSE LocateFrom(ps, i + 1, off - ps[i].Size)

GetPartNumberOffset(ps, off) == LocateFrom(ps, 1, off)

\* GetObject called: names are valid and the bucket exists
GetStart(p, U) ==
  \E o \in U.objs, off \in U.offs :
    /\ Begin(p, [NewOp(p, U, "get", o) EXCEPT !.off = off], "get_ismp")
    /\ UNCHANGED <<simple, desc, parts, tmp, faults, renamed, format>>

\* isMultipartObject: storage.StatFile of the descriptor file
GetIsMp(p) ==
  /\ pc[p] = "get_ismp"
  /\ \E f \in FaultChoices :
       /\ Count(f)
       /\ IF f THEN Finish(p, Fault(f, op[p]), toObjectErr(errFault), 0)
          ELSE IF desc[op[p].obj].ok THEN Goto(p, op[p], "get_info")
          ELSE Goto(p, op[p], "get_stat")
  /\ UNCHANGED <<simple, desc, parts, tmp, renamed, format>>

\* storage.StatFile(bucket, object) of a simple object
GetStat(p) ==
  /\ pc[p] = "get_stat"
  /\ \E f \in FaultChoices :
       /\ Count(f)
       /\ IF f THEN Finish(p, Fault(f, op[p]), toObjectErr(errFault), 0)
          ELSE IF ~simple[op[p].obj].ok THEN Finish(p, op[p], toObjectErr(errFileNotFound), 0)
          ELSE Goto(p, op[p], "get_read")
  /\ UNCHANGED <<simple, desc, parts, tmp, renamed, format>>

\* storage.ReadFile(bucket, object, startOffset): the reader is handed to the caller
GetRead(p) ==
  /\ pc[p] = "get_read"
  /\ LET o == op[p].obj
     IN \E f \in FaultChoices :
          /\ Count(f)
          /\ IF f THEN Finish(p, Fault(f, op[p]), toObjectErr(errFault), 0)
             ELSE IF ~simple[o].ok THEN Finish(p, op[p], toObjectErr(errFileNotFound), 0)
             ELSE Finish(p, [op[p] EXCEPT !.out = Suffix(simple[o].data, op[p].off),
                                          !.st = "eof"], NoErr, 0)
  /\ UNCHANGED <<simple, desc, parts, tmp, renamed, format>>

\* io.Pipe(), getMultipartObjectInfo, GetPartNumberOffset, then the producer starts
GetInfo(p) ==
  /\ pc[p] = "get_info"
  /\ LET o == op[p].obj
         loc == GetPartNumberOffset(desc[o].Parts, op[p].off)
     IN \E f \in FaultChoices :
          /\ Count(f)
          /\ IF f THEN Finish(p, Fault(f, op[p]), toObjectErr(errFault), 0)
             ELSE IF ~desc[o].ok THEN Finish(p, op[p], toObjectErr(errFileNotFound), 0)
             ELSE IF loc.err # NoErr THEN Finish(p, DescRead(op[p]), toObjectErr(loc.err), 0)
             ELSE Goto(p, [DescRead(op[p]) EXCEPT !.info = desc[o].Parts, !.pidx = loc.idx,
                                        !.poff = loc.off, !.st = "open",
                                        !.prod = "loop", !.cons = "reading"], "get_stream")
  /\ UNCHANGED <<simple, desc, parts, tmp, renamed, format>>

\* faulty variant: the offset is not reset after the first part
NextPartOffset_Kept(poff) == poff

\* offset = 0 after the first ReadFile of the producer loop
NextPartOffset(poff) == 0

\* one iteration of the producer loop: ReadFile of the part at offset, io.Copy into
\* the pipe, r.Close(); a failed ReadFile ends the stream with that error
GetPart(p) ==
  /\ pc[p] = "get_stream"
  /\ op[p].pidx <= Len(op[p].info)
  /\ LET o == op[p].obj
         n == op[p].info[op[p].pidx].PartNumber
     IN \E f \in FaultChoices :
          /\ Count(f)
          /\ IF f \/ ~parts[o][n].ok
               THEN Finish(p, [Fault(f, op[p]) EXCEPT !.st = "err",
                                 !.serr = IF f THEN errFault ELSE errFileNotFound], NoErr, 0)
               ELSE Goto(p, [op[p] EXCEPT !.out = @ \o Suffix(parts[o][n].data, op[p].poff),
                                          !.poff = NextPartOffset(op[p].poff),
                                          !.pidx = @ + 1], "get_stream")
  /\ UNCHANGED <<simple, desc, parts, tmp, renamed, format>>

\* the producer loop is over: fileWriter.Close() ends the stream
GetEnd(p) ==
  /\ pc[p] = "get_stream"
  /\ op[p].pidx > Len(op[p].info)
  /\ Finish(p, [op[p] EXCEPT !.st = "eof"], NoErr, 0)
  /\ UNCHANGED <<simple, desc, parts, tmp, faults, renamed, format>>

\* ---------------------------------------------------------- GetObjectInfo
\* GetObjectInfo called: names are valid and the bucket exists
InfoStart(p, U) ==
  \E o \in U.objs :
    /\ Begin(p, NewOp(p, U, "info", o), "info_stat")
    /\ UNCHANGED <<simple, desc, parts, tmp, faults, renamed, format>>

\* storage.StatFile(bucket, o): the FileInfo of a simple file
StatFile(o) ==
  IF simple[o].ok
    THEN [Size |-> Len(simple[o].data), ModTime |-> "written", MD5Sum |-> Hash(simple[o].data)]
    ELSE NoFileInfo

\* faulty variant: every stat error falls through to the descriptor
StatNotFound_Any(err) == TRUE

\* getObjectInfo: only errFileNotFound from the stat leads to the descriptor
StatNotFound(err) == err = errFileNotFound

\* getObjectInfo: storage.StatFile(bucket, object)
InfoStat(p) ==
  /\ pc[p] = "info_stat"
  /\ LET o == op[p].obj
     IN \E f \in FaultChoices :
          LET err == IF f THEN errFault ELSE IF simple[o].ok THEN NoErr ELSE errFileNotFound
              fi == IF err = NoErr THEN StatFile(o) ELSE NoFileInfo
          IN /\ Count(f)
             /\ IF err = NoErr
                  THEN Finish(p, [op[p] EXCEPT !.fi = fi], NoErr, fi.Size)
                ELSE IF ~StatNotFound(err)
                  THEN Finish(p, Fault(f, op[p]), toObjectErr(err), 0)
                ELSE Goto(p, Fault(f, [op[p] EXCEPT !.fi = fi]), "info_desc")
  /\ UNCHANGED <<simple, desc, parts, tmp, renamed, format>>

\* getObjectInfo: getMultipartObjectInfo after the stat reported not-found;
\* size, time and md5 of the descriptor are copied into fi
InfoDesc(p) ==
  /\ pc[p] = "info_desc"
  /\ LET o == op[p].obj
     IN \E f \in FaultChoices :
          LET err == IF f THEN errFault ELSE IF desc[o].ok THEN NoErr ELSE errFileNotFound
              info == desc[o]
              fi == [op[p].fi EXCEPT !.Size = info.Size, !.ModTime = info.ModTime,
                                     !.MD5Sum = info.MD5Sum]
          IN /\ Count(f)
             /\ IF err # NoErr
                  THEN Finish(p, Fault(f, [op[p] EXCEPT !.fi = NoFileInfo]), toObjectErr(err), 0)
                  ELSE Finish(p, DescRead([op[p] EXCEPT !.fi = fi]), NoErr, fi.Size)
  /\ UNCHANGED <<simple, desc, parts, tmp, renamed, format>>

\* a multipart upload to an empty path completes: descriptor and part files appear
CompleteMultipart(p, U) ==
  \E o \in U.objs, cfg \in U.cfgs :
    /\ ObjState(o) = "absent"
    /\ Resting(p)
    /\ pc' = [pc EXCEPT ![p] = "done"]
    /\ op' = [op EXCEPT ![p] = NewOp(p, U, "complete", o)]
    /\ desc' = [desc EXCEPT ![o] = MkDesc(cfg)]
    /\ parts' = [parts EXCEPT ![o] = [n \in PartNums |->
                    IF n <= Len(cfg) THEN File(PartData(n, cfg[n])) ELSE NoFile]]
    /\ UNCHANGED <<simple, tmp, faults, renamed, format>>

\* one step of client p, its calls drawn from U
Step(p, U) ==
  \/ PutStart(p, U)
  \/ PutCreate(p)
  \/ PutCopy(p)
  \/ PutClose(p)
  \/ PutParent(p)
  \/ PutRename(p)
  \/ PutRmTmp(p)
  \/ DeleteStart(p, U)
  \/ DelIsMp(p)
  \/ DelSimple(p)
  \/ DelInfo(p)
  \/ DelPart(p)
  \/ DelDesc(p)
  \/ GetStart(p, U)
  \/ GetIsMp(p)
  \/ GetStat(p)
  \/ GetRead(p)
  \/ GetInfo(p)
  \/ GetPart(p)
  \/ GetEnd(p)
  \/ InfoStart(p, U)
  \/ InfoStat(p)
  \/ InfoDesc(p)
  \/ CompleteMultipart(p, U)

\* one client issuing calls one after the other
Next == Step(1, Rich)

Spec == Init /\ [][Next]_vars

\* one client that also writes to a path below an object
NextTree == Step(1, Tree)

SpecTree == Init /\ [][NextTree]_vars

\* two clients racing on one object
NextConc == \E p \in Procs : Step(p, Small)

\* the racing clients run on a backend that injects no fault
InitConc == Init!1 /\ Init!2 /\ Init!3 /\ Init!4 /\ Init!5 /\ Init!6 /\ faults = MaxFaults /\ Init!8
            /\ Init!9

SpecConc == InitConc /\ [][NextConc]_vars

\* two clients deleting an object that was uploaded in two parts
Race == [objs |-> {"a"}, puts |-> {}, datas |-> {<< >>}, sizes |-> {0}, md5s |-> {NoMD5},
         cfgs |-> {<<1, 1>>}, offs |-> {0}, track |-> TRUE]

NextRace ==
  \E p \in Procs :
    \/ CompleteMultipart(p, Race)
    \/ DeleteStart(p, Race)
    \/ DelIsMp(p)
    \/ DelSimple(p)
    \/ DelInfo(p)
    \/ DelPart(p)
    \/ DelDesc(p)

SpecRace == InitConc /\ [][NextRace]_vars

\* ------------------------------------------- GetObject: producer and consumer
\* The producer goroutine of a multipart GetObject and the consumer of the pipe,
\* step by step: a pipe Write blocks until the consumer has read the bytes or has
\* closed its end.

\* the error of a pipe Write once the read end is closed
errClosedPipe == "io: read/write on closed pipe"

\* the bytes one Read of a part stream delivers
Chunk(rrem) == SubSeq(rrem, 1, 1)

\* faulty variant: the stream is left open on the error path
CloseOnCopyError_Skipped(ropen, k) == ropen

\* switch reader := r.(type) ... case io.ReadCloser: reader.Close()
CloseOnCopyError(ropen, k) == ropen \ {k}

\* faulty variant: a failed ReadFile ends the stream cleanly
OpenFailed_CleanEnd(rec, err) == [rec EXCEPT !.st = "eof", !.prod = "done"]

\* ReadFile failed: fileWriter.CloseWithError(err); return
OpenFailed(rec, err) == [rec EXCEPT !.st = "err", !.serr = err, !.prod = "done"]

\* io.Copy returned err: the part stream is closed, fileWriter.CloseWithError(err); return
CopyFailed(rec, err) ==
  [rec EXCEPT !.ropen = CloseOnCopyError(@, rec.info[rec.pidx].PartNumber),
              !.rrem = << >>, !.pipe = << >>,
              !.st = "err", !.serr = err, !.prod = "done"]

\* loop head: ReadFile of the next part at offset, then offset = 0
ProdOpen(p) ==
  /\ pc[p] = "get_stream" /\ op[p].prod = "loop"
  /\ op[p].pidx <= Len(op[p].info)
  /\ LET o == op[p].obj
         n == op[p].info[op[p].pidx].PartNumber
     IN \E f \in FaultChoices :
          /\ Count(f)
          /\ IF f \/ ~parts[o][n].ok
               THEN Goto(p, OpenFailed(Fault(f, op[p]), IF f THEN errFault ELSE errFileNotFound),
                         "get_stream")
               ELSE Goto(p, [op[p] EXCEPT !.ropen = @ \cup {n},
                                          !.rrem = Suffix(parts[o][n].data, op[p].poff),
                                          !.poff = NextPartOffset(op[p].poff),
                                          !.prod = "copy"], "get_stream")
  /\ UNCHANGED <<simple, desc, parts, tmp, renamed, format>>

\* io.Copy: one Read of the part stream, and the pipe Write of what it delivered;
\* at end of the part r.Close() and the next iteration
ProdCopy(p) ==
  /\ pc[p] = "get_stream" /\ op[p].prod = "copy" /\ op[p].pipe = << >>
  /\ \E f \in IF op[p].rrem = << >> THEN {FALSE} ELSE FaultChoices :
       /\ Count(f)
       /\ IF f THEN Goto(p, CopyFailed(Fault(f, op[p]), errFault), "get_stream")
          ELSE IF op[p].rrem = << >>
            THEN Goto(p, [op[p] EXCEPT !.ropen = @ \ {op[p].info[op[p].pidx].PartNumber},
                                       !.pidx = @ + 1, !.prod = "loop"], "get_stream")
          ELSE IF op[p].cons = "closed"
            THEN Goto(p, CopyFailed(op[p], errClosedPipe), "get_stream")
          ELSE Goto(p, [op[p] EXCEPT !.pipe = Chunk(op[p].rrem),
                                     !.rrem = SubSeq(@, 2, Len(@))], "get_stream")
  /\ UNCHANGED <<simple, desc, parts, tmp, renamed, format>>

\* the pending pipe Write returns an error because the consumer closed its end
ProdWriteFail(p) ==
  /\ pc[p] = "get_stream" /\ op[p].prod = "copy"
  /\ op[p].pipe # << >> /\ op[p].cons = "closed"
  /\ Goto(p, CopyFailed(op[p], errClosedPipe), "get_stream")
  /\ UNCHANGED <<simple, desc, parts, tmp, faults, renamed, format>>

\* the loop is over: fileWriter.Close()
ProdEnd(p) ==
  /\ pc[p] = "get_stream" /\ op[p].prod = "loop"
  /\ op[p].pidx > Len(op[p].info)
  /\ Goto(p, [op[p] EXCEPT !.st = "eof", !.prod = "done"], "get_stream")
  /\ UNCHANGED <<simple, desc, parts, tmp, faults, renamed, format>>

\* the consumer reads the bytes of the pending Write
ConsRead(p) ==
  /\ pc[p] = "get_stream" /\ op[p].cons = "reading"
  /\ op[p].pipe # << >>
  /\ Goto(p, [op[p] EXCEPT !.out = @ \o op[p].pipe, !.pipe = << >>], "get_stream")
  /\ UNCHANGED <<simple, desc, parts, tmp, faults, renamed, format>>

\* the consumer's Read returns the end of the stream or the producer's error
ConsEnd(p) ==
  /\ pc[p] = "get_stream" /\ op[p].cons = "reading"
  /\ op[p].pipe = << >> /\ op[p].st \in {"eof", "err"}
  /\ Goto(p, [op[p] EXCEPT !.cons = "ended"], "get_stream")
  /\ UNCHANGED <<simple, desc, parts, tmp, faults, renamed, format>>

\* the consumer closes its end before the end of the stream
ConsClose(p) ==
  /\ pc[p] = "get_stream" /\ op[p].cons = "reading"
  /\ op[p].st = "open"
  /\ Goto(p, [op[p] EXCEPT !.cons = "closed"], "get_stream")
  /\ UNCHANGED <<simple, desc, parts, tmp, faults, renamed, format>>

\* the producer has returned and the consumer is done with the stream
StreamOver(p) ==
  /\ pc[p] = "get_stream" /\ op[p].prod = "done"
  /\ op[p].cons \in {"ended", "closed"}
  /\ Finish(p, op[p], NoErr, 0)
  /\ UNCHANGED <<simple, desc, parts, tmp, faults, renamed, format>>

\* one step of client p with the stream of a multipart GetObject step by step
StepPipe(p, U) ==
  \/ CompleteMultipart(p, U)
  \/ DeleteStart(p, U)
  \/ DelIsMp(p)
  \/ DelSimple(p)
  \/ DelInfo(p)
  \/ DelPart(p)
  \/ DelDesc(p)
  \/ GetStart(p, U)
  \/ GetIsMp(p)
  \/ GetStat(p)
  \/ GetInfo(p)
  \/ ProdOpen(p)
  \/ ProdCopy(p)
  \/ ProdWriteFail(p)
  \/ ProdEnd(p)
  \/ ConsRead(p)
  \/ ConsEnd(p)
  \/ ConsClose(p)
  \/ StreamOver(p)

\* the inputs of a client reading multipart objects
Pipe == [objs |-> {"a"}, puts |-> {"a"}, datas |-> {<<2, 1>>}, sizes |-> {0},
         md5s |-> {NoMD5}, cfgs |-> PartConfigs, offs |-> Offsets, track |-> TRUE]

NextPipe == StepPipe(1, Pipe)

SpecPipe == Init /\ [][NextPipe]_vars

\* the scheduler runs the producer goroutine whenever it can take a step
FairPipe ==
  /\ WF_vars(ProdOpen(1)) /\ WF_vars(ProdCopy(1))
  /\ WF_vars(ProdWriteFail(1)) /\ WF_vars(ProdEnd(1))

SpecPipeFair == SpecPipe /\ FairPipe

\* ------------------------------------------------- entry checks of the calls
\* GetObject, GetObjectInfo, PutObject and DeleteObject start with the same three
\* checks, in the same order.
Kinds == {"get", "info", "put", "delete"}

\* whether the bucket name is valid, the bucket exists, the object name is valid
NameCases == [bucket : BOOLEAN, exists : BOOLEAN, object : BOOLEAN]

\* a call whose bucket or object name is invalid, or whose bucket may be missing:
\* IsValidBucketName(bucket)
Enter(p) ==
  \E kind \in Kinds, nm \in NameCases :
    /\ ~(nm.bucket /\ nm.exists /\ nm.object)
    /\ Resting(p)
    /\ LET rec == [IdleOp EXCEPT !.kind = kind, !.obj = "a", !.nm = nm, !.track = TRUE]
       IN IF ~nm.bucket THEN Finish(p, rec, BucketNameInvalid, 0)
                        ELSE Goto(p, rec, "entry_bucket")
    /\ UNCHANGED <<simple, desc, parts, tmp, faults, renamed, format>>

\* isBucketExist(xl.storage, bucket), a call to the backend, then IsValidObjectName(object)
EntryBucket(p) ==
  /\ pc[p] = "entry_bucket"
  /\ \E f \in FaultChoices :
       LET rec == [Fault(f, op[p]) EXCEPT !.calls = @ + 1]
       IN /\ Count(f)
          /\ IF f \/ ~rec.nm.exists THEN Finish(p, rec, BucketNotFound, 0)
             ELSE Finish(p, rec, ObjectNameInvalid, 0)
  /\ UNCHANGED <<simple, desc, parts, tmp, renamed, format>>

\* one client whose calls may carry invalid names
NextEntry ==
  \/ Step(1, Tree)
  \/ Enter(1)
  \/ EntryBucket(1)

SpecEntry == Init /\ [][NextEntry]_vars

\* ---------------------------------------------------------------- startup
\* faulty variant: the disks are compared as sets
DisksInOrder_AnyOrder(exportPaths, disks, index) ==
  {exportPaths[i] : i \in DOMAIN exportPaths} = {disks[i] : i \in DOMAIN disks}

RECURSIVE DisksInOrder(_, _, _)
\* for index, disk := range xl.Disks: false at the first exportPaths[index] != disk
DisksInOrder(exportPaths, disks, index) ==
  IF index > Len(disks) THEN TRUE
  ELSE IF exportPaths[index] # disks[index] THEN FALSE
  ELSE DisksInOrder(exportPaths, disks, index + 1)

\* isValidFormat, given what loadFormatXL returned
isValidFormat(loadErr, xl, exportPaths) ==
  IF loadErr # NoErr THEN FALSE
  ELSE IF xl.Version # "1" THEN FALSE
  ELSE IF Len(exportPaths) # Len(xl.Disks) THEN FALSE
  ELSE DisksInOrder(exportPaths, xl.Disks, 1)

\* faulty variant: every failed format check leads to a save
ShouldSave_Any(err) == err # NoErr

\* err == errFileNotFound after checkFormat
ShouldSave(err) == err = errFileNotFound

\* the error newXLObjects returns for a failed format check
CheckFormatError(err) ==
  IF err = errReadQuorum THEN errQuorumMsg
  ELSE IF err = errDiskNotFound THEN errDisksMsg
  ELSE IF err = errVolumeAccessDenied THEN errAccessMsg
  ELSE err

\* the errors checkFormat may return when the backend is not available
CheckFaults == {errReadQuorum, errDiskNotFound, errVolumeAccessDenied, errFault}

\* newXLObjects(exportPaths...) called
BootStart(p) ==
  \E ep \in ExportPaths :
    /\ Begin(p, [IdleOp EXCEPT !.kind = "boot", !.paths = ep, !.track = TRUE], "boot_newxl")
    /\ UNCHANGED <<simple, desc, parts, tmp, faults, renamed, format>>

\* newXL(exportPaths...), then initObjectLayer(storage)
BootNewXL(p) ==
  /\ pc[p] = "boot_newxl"
  /\ \E f \in FaultChoices :
       /\ Count(f)
       /\ IF f THEN Finish(p, Fault(f, op[p]), errFault, 0)
               ELSE Goto(p, op[p], "boot_check")
  /\ UNCHANGED <<simple, desc, parts, tmp, renamed, format>>

\* checkFormat(storage) and the branch on its error
BootCheck(p) ==
  /\ pc[p] = "boot_check"
  /\ \E f \in FaultChoices :
       \E err \in IF f THEN CheckFaults
                   ELSE {IF format.ok THEN NoErr ELSE errFileNotFound} :
         /\ Count(f)
         /\ IF err = NoErr THEN Goto(p, op[p], "boot_valid")
            ELSE IF ShouldSave(err) THEN Goto(p, [Fault(f, op[p]) EXCEPT !.err = err], "boot_save")
            ELSE Finish(p, [Fault(f, op[p]) EXCEPT !.serr = err], CheckFormatError(err), 0)
  /\ UNCHANGED <<simple, desc, parts, tmp, renamed, format>>

\* saveFormatXL(storage, &xlFormat{Version: "1", Disks: exportPaths})
BootSave(p) ==
  /\ pc[p] = "boot_save"
  /\ \E f \in FaultChoices :
       /\ Count(f)
       /\ IF f THEN /\ Finish(p, Fault(f, op[p]), errFault, 0)
                    /\ UNCHANGED format
               ELSE /\ format' = MkFormat(op[p].paths)
                    /\ Goto(p, [op[p] EXCEPT !.err = NoErr], "boot_valid")
  /\ UNCHANGED <<simple, desc, parts, tmp, renamed>>

\* isValidFormat(storage, exportPaths...): loadFormatXL, then the comparison
BootValid(p) ==
  /\ pc[p] = "boot_valid"
  /\ \E f \in FaultChoices :
       LET loadErr == IF f THEN errFault ELSE IF format.ok THEN NoErr ELSE errFileNotFound
           ok == isValidFormat(loadErr, format, op[p].paths)
       IN /\ Count(f)
          /\ Finish(p, [Fault(f, op[p]) EXCEPT !.st = IF ok THEN "valid" ELSE "invalid"],
                    IF ok THEN NoErr ELSE errArgsMsg, 0)
  /\ UNCHANGED <<simple, desc, parts, tmp, renamed, format>>

\* the process is started again and again, each time with some disk list
NextBoot ==
  \/ BootStart(1)
  \/ BootNewXL(1)
  \/ BootCheck(1)
  \/ BootSave(1)
  \/ BootValid(1)

\* before the first startup: nothing persisted, or the format.json of another release
InitBoot ==
  /\ Init!1 /\ Init!2 /\ Init!3 /\ Init!4 /\ Init!5 /\ Init!6 /\ Init!7 /\ Init!8
  /\ format \in {NoFormat} \cup {[MkFormat(ep) EXCEPT !.Version = "2"] : ep \in ExportPaths}

SpecBoot == InitBoot /\ [][NextBoot]_vars

\* ------------------------------------------------------------------ claims
InPutAfterCreate(p) ==
  /\ op[p].kind = "put"
  /\ pc[p] \in {"put_copy", "put_close", "put_parent", "del_ismp", "del_simple",
                "del_info", "del_parts", "put_rename", "put_rmtmp"}

\* C1: whenever PutObject returns an error after CreateFile succeeded (and the
\* cleanup it attempted did not itself fail), no staging file for the destination
\* is left: the staged path is absent and the staging writer is discarded.
C1_FailedPutRemovesStaging ==
  [][\A p \in Procs :
       (/\ InPutAfterCreate(p)
        /\ pc'[p] = "done"
        /\ op'[p].err # NoErr
        /\ ~op'[p].wopen
        /\ ~(pc[p] = "put_rmtmp" /\ faults' # faults))
       => ~tmp'[op[p].obj].ok]_vars

\* C2: a DeleteObject that follows a DeleteObject of the same object which failed
\* on its part deletions, and meets no backend fault itself, succeeds and removes
\* the descriptor.
C2_RetryAfterPartFailureSucceeds ==
  \A p \in Procs :
    (/\ pc[p] = "done" /\ op[p].kind = "delete" /\ ~op[p].flt
     /\ op[p].prev.kind = "delete" /\ op[p].prev.obj = op[p].obj
     /\ op[p].prev.err = errUnexpected)
    => (op[p].err = NoErr /\ ~desc[op[p].obj].ok)

\* C3: in deleteObject on a multipart object the descriptor is deleted only when
\* every part task has finished and none failed; deleteObject does not return
\* while a part task is outstanding; and when a part deletion failed the
\* descriptor is still there on return.
C3_DescriptorDeletedAfterJoin ==
  [][\A p \in Procs :
       LET o == op[p].obj
           failed == \E i \in DOMAIN op[p].errs : op[p].errs[i] # NoErr
       IN pc[p] = "del_parts" =>
            /\ (desc'[o] # desc[o] => op[p].todo = {} /\ ~failed)
            /\ (pc'[p] # "del_parts" => op[p].todo = {})
            /\ (pc'[p] # "del_parts" /\ failed => desc'[o].ok)]_vars

C3_Witness ==
  \E p \in Procs :
    /\ pc[p] = "done" /\ op[p].kind = "delete" /\ op[p].err = errUnexpected
    /\ Len(op[p].errs) = 2
    /\ desc[op[p].obj].ok

\* C4: from the start of a PutObject onto a destination that holds a complete
\* object, a complete object is at the destination in every state during and
\* after the call, and a PutObject that fails leaves the destination as it was.
C4_OverwriteIsAtomic ==
  \A p \in Procs :
    (op[p].kind = "put" /\ pc[p] # "idle" /\ op[p].pre \in {"simple", "multipart"})
    => /\ ObjState(op[p].obj) \in {"simple", "multipart"}
       /\ (pc[p] = "done" /\ op[p].err # NoErr => ObjState(op[p].obj) = op[p].pre)

\* C5: once two PutObject calls with different payloads to the same object have
\* both returned, the object at the destination is the payload of the call whose
\* rename succeeded last.
C5_LastRenameWins ==
  \A p \in Procs : \A q \in Procs \ {p} :
    (/\ pc[p] = "done" /\ pc[q] = "done"
     /\ op[p].kind = "put" /\ op[q].kind = "put"
     /\ op[p].obj = op[q].obj /\ op[p].data # op[q].data
     /\ op[p].err = NoErr
     /\ renamed[op[p].obj] = p)
    => simple[op[p].obj] = File(op[p].data)

\* C6 (as stated): a PutObject whose md5Sum differs from the digest of the copied
\* data returns BadDigest with the staged data discarded, and nothing in the
\* bucket or the staging namespace has changed.
C6_MismatchIsBadDigest ==
  [][\A p \in Procs :
       (pc[p] = "put_close" /\ op[p].md5 # NoMD5 /\ op[p].md5 # Hash(op[p].buf))
       => /\ pc'[p] = "done" /\ op'[p].err = BadDigest /\ ~op'[p].wopen
          /\ UNCHANGED <<simple, desc, parts, tmp>>]_vars

\* C6 (amended): such a PutObject returns before the destination is touched, with
\* BadDigest and the staged data discarded, or with the error of the cleanup when
\* the cleanup fails; no step of the call up to then changes the bucket or the
\* staging namespace, so neither the delete nor the rename is issued.
C6_MismatchRejectedBeforeDestination ==
  [][\A p \in Procs :
       /\ (op[p].kind = "put" /\ pc[p] \in {"put_create", "put_copy"}
           => UNCHANGED <<simple, desc, parts, tmp>>)
       /\ (pc[p] = "put_close" /\ op[p].md5 # NoMD5 /\ op[p].md5 # Hash(op[p].buf)
           => /\ pc'[p] = "done"
              /\ UNCHANGED <<simple, desc, parts, tmp>>
              /\ \/ op'[p].err = BadDigest /\ ~op'[p].wopen
                 \/ op'[p].err = errFault /\ faults' = faults + 1)]_vars

C6_Witness ==
  \E p \in Procs :
    /\ pc[p] = "done" /\ op[p].kind = "put" /\ op[p].err = BadDigest
    /\ op[p].pre = "absent" /\ ObjState(op[p].obj) = "absent"
    /\ ~tmp[op[p].obj].ok

RECURSIVE ConcatParts(_, _)
\* P1 || ... || Pn from part index i on, read from the part files of o
ConcatParts(o, i) ==
  IF i > Len(desc[o].Parts) THEN << >>
  ELSE parts[o][desc[o].Parts[i].PartNumber].data \o ConcatParts(o, i + 1)

\* C7: GetObject(offset) on a complete multipart object, with no backend fault,
\* streams the suffix of P1||...||Pn from offset when offset < sum(si), streams
\* nothing when offset = sum(si), and fails when offset > sum(si).
C7_MultipartGetIsSuffix ==
  \A p \in Procs :
    (pc[p] = "done" /\ op[p].kind = "get" /\ op[p].pre = "multipart" /\ ~op[p].flt)
    => LET all == ConcatParts(op[p].obj, 1)
       IN IF op[p].off <= Len(all)
            THEN /\ op[p].err = NoErr /\ op[p].st = "eof"
                 /\ op[p].out = [i \in 1..(Len(all) - op[p].off) |-> all[op[p].off + i]]
            ELSE op[p].err # NoErr /\ op[p].st = "none"

C7_Witness ==
  \E p \in Procs :
    /\ pc[p] = "done" /\ op[p].kind = "get" /\ op[p].pre = "multipart" /\ ~op[p].flt
    /\ Len(desc[op[p].obj].Parts) = 2
    /\ op[p].off = 1 /\ Len(op[p].out) = 2

\* C8: GetObject(o, 0) right after a successful PutObject(o, len(payload),
\* payload, {}) by the same single client, with no backend fault, streams payload
\* to the end, and the PutObject returned the digest of payload.
C8_PutGetRoundTrip ==
  \A p \in Procs :
    (/\ pc[p] = "done" /\ op[p].kind = "get" /\ op[p].off = 0 /\ ~op[p].flt
     /\ op[p].prev.kind = "put" /\ op[p].prev.obj = op[p].obj
     /\ op[p].prev.err = NoErr
     /\ op[p].prev.size = Len(op[p].prev.data) /\ op[p].prev.md5 = NoMD5)
    => /\ op[p].err = NoErr /\ op[p].st = "eof"
       /\ op[p].out = op[p].prev.data
       /\ op[p].prev.ret = Hash(op[p].prev.data)

C8_Witness ==
  \E p \in Procs :
    /\ pc[p] = "done" /\ op[p].kind = "get" /\ op[p].off = 0
    /\ op[p].prev.kind = "put" /\ op[p].prev.obj = op[p].obj /\ op[p].prev.err = NoErr
    /\ op[p].prev.size = 2 /\ op[p].prev.pre = "multipart"
    /\ op[p].out = <<2, 1>>

\* C9: of two DeleteObject calls in a row on an object that existed (simple or
\* multipart), with no backend fault in either, the first returns nil and the
\* second returns the not-found error.
C9_DeleteTwice ==
  \A p \in Procs :
    (/\ pc[p] = "done" /\ op[p].kind = "delete" /\ ~op[p].flt
     /\ op[p].prev.kind = "delete" /\ op[p].prev.obj = op[p].obj
     /\ op[p].prev.pre \in {"simple", "multipart"} /\ ~op[p].prev.flt)
    => (op[p].prev.err = NoErr /\ op[p].err = ObjectNotFound)

C9_Witness ==
  \E p \in Procs :
    /\ pc[p] = "done" /\ op[p].kind = "delete" /\ ~op[p].flt
    /\ op[p].prev.kind = "delete" /\ op[p].prev.obj = op[p].obj
    /\ op[p].prev.pre = "multipart" /\ ~op[p].prev.flt
    /\ op[p].err = ObjectNotFound

\* C10: a DeleteObject in which a part deletion failed returns errUnexpected
\* whatever the part errors were, and a DeleteObject never returns the not-found
\* error while the descriptor of the object exists.
C10_PartFailureIsUnexpected ==
  [][\A p \in Procs :
       /\ ((/\ op[p].kind = "delete" /\ pc[p] = "del_parts" /\ pc'[p] = "done"
            /\ \E i \in DOMAIN op[p].errs : op[p].errs[i] # NoErr)
           => op'[p].err = errUnexpected)
       /\ ((op'[p].kind = "delete" /\ pc[p] # "done" /\ pc'[p] = "done"
            /\ op'[p].err = ObjectNotFound)
           => ~desc'[op'[p].obj].ok)]_vars

C10_Witness ==
  \E p \in Procs :
    /\ pc[p] = "done" /\ op[p].kind = "delete" /\ op[p].err = errUnexpected
    /\ \E i \in DOMAIN op[p].errs : op[p].errs[i] = errFileNotFound
    /\ ~op[p].flt
    /\ desc[op[p].obj].ok

\* C11: the validation step of a startup reports valid exactly when format.json
\* loads, its version is "1", it lists as many disks as the startup was given, and
\* the disks are equal position by position; so a startup that validated runs on
\* the persisted order, and a reordering of the persisted disks never validates.
C11_ValidIffSameOrder ==
  [][\A p \in Procs :
       (pc[p] = "boot_valid" /\ pc'[p] = "done")
       => /\ (op'[p].st = "valid")
               <=> (/\ faults' = faults /\ format.ok /\ format.Version = "1"
                    /\ Len(format.Disks) = Len(op[p].paths)
                    /\ \A i \in 1..Len(op[p].paths) : format.Disks[i] = op[p].paths[i])
          /\ (op'[p].err = NoErr) <=> (op'[p].st = "valid")
          /\ (format.Version = "1" /\ format.Disks # op[p].paths) => op'[p].err = errArgsMsg]_vars

C11_Witness ==
  \E p \in Procs :
    /\ pc[p] = "done" /\ op[p].kind = "boot" /\ op[p].st = "invalid" /\ ~op[p].flt
    /\ format.Version = "1" /\ Len(format.Disks) = 2
    /\ op[p].paths = <<format.Disks[2], format.Disks[1]>>
    /\ op[p].paths # format.Disks

\* C12: a step of a startup changes format.json only if it is the save after a
\* format check that reported not-found, no format.json exists, and what is written
\* is version "1" with the disk list of that startup; and a format check failing
\* with another error ends the startup with an error and format.json unchanged.
C12_FormatWrittenOnce ==
  [][\A p \in Procs :
       /\ (format' # format /\ op[p].kind = "boot" /\ pc[p] # pc'[p])
            => /\ pc[p] = "boot_save" /\ op[p].err = errFileNotFound
               /\ ~format.ok
               /\ format' = [ok |-> TRUE, Version |-> "1", Disks |-> op[p].paths]
       /\ (format.ok => format' = format)
       /\ (pc[p] = "boot_check" /\ pc'[p] # "boot_check" /\ faults' # faults)
            => /\ pc'[p] = "done" /\ op'[p].err # NoErr
               /\ op'[p].serr \in CheckFaults
               /\ format' = format]_vars

C12_Witness ==
  \E p \in Procs :
    /\ pc[p] = "done" /\ op[p].kind = "boot" /\ op[p].err = errArgsMsg
    /\ format.Version = "1" /\ Len(format.Disks) # Len(op[p].paths)

\* C13: in a multipart GetObject, once the consumer has closed its end the producer
\* goroutine eventually returns; whenever the producer has returned no part stream
\* it opened is still open; and when the producer has returned and the consumer is
\* still reading, the stream is ended (end-of-stream or the producer's error), so
\* the consumer's read is not blocked.
C13_ProducerStopsOnClose ==
  /\ [](\A p \in Procs :
         op[p].prod = "done" =>
           /\ op[p].ropen \subseteq {0}
           /\ op[p].pipe = << >>
           /\ op[p].st \in {"eof", "err"}
           /\ (op[p].st = "err" => op[p].serr # NoErr))
  /\ \A p \in {1} : (op[p].cons = "closed") ~> (op[p].prod = "done")

C13_Witness ==
  \E p \in Procs :
    /\ pc[p] = "done" /\ op[p].kind = "get" /\ op[p].cons = "closed"
    /\ op[p].prod = "done" /\ op[p].serr = errClosedPipe
    /\ Len(op[p].out) = 1 /\ op[p].pidx = 2 /\ ~op[p].flt

RECURSIVE UploadedParts(_, _)
\* the bytes of the parts a descriptor lists, in its order, from part index i on
UploadedParts(ps, i) ==
  IF i > Len(ps) THEN << >>
  ELSE PartData(ps[i].PartNumber, ps[i].Size) \o UploadedParts(ps, i + 1)

\* C16: when the producer of a multipart GetObject returned before its loop was
\* over (opening or reading part k failed) and the consumer read to the end, the
\* consumer received the bytes from the start offset up to a point inside part k
\* (its start, or the start offset, when opening failed), the stream ended with the
\* read error, no part stream is open, and at every moment at most the stream of
\* the current part is open.
C16_ReadErrorEndsStream ==
  \A p \in Procs :
    /\ (pc[p] = "get_stream" /\ op[p].prod \in {"loop", "copy"}) =>
         op[p].ropen \ {0} \subseteq
           (IF op[p].prod = "copy" THEN {op[p].info[op[p].pidx].PartNumber} ELSE {})
    /\ (/\ op[p].kind = "get" /\ op[p].prod = "done" /\ op[p].cons = "ended"
        /\ op[p].pidx <= Len(op[p].info)) =>
         LET all == UploadedParts(op[p].info, 1)
             k == op[p].pidx
             startK == Len(all) - Len(UploadedParts(op[p].info, k))
             endK == Len(all) - Len(UploadedParts(op[p].info, k + 1))
             from == IF startK > op[p].off THEN startK ELSE op[p].off
             got == op[p].off + Len(op[p].out)
         IN /\ op[p].st = "err" /\ op[p].serr \in {errFault, errFileNotFound}
            /\ op[p].out = [i \in 1..Len(op[p].out) |-> all[op[p].off + i]]
            /\ from <= got /\ got < endK
            /\ (op[p].serr = errFileNotFound => got = from)
            /\ op[p].ropen \subseteq {0}

C16_Witness ==
  \E p \in Procs :
    /\ pc[p] = "get_stream" /\ op[p].prod = "done" /\ op[p].cons = "ended"
    /\ op[p].st = "err" /\ op[p].serr = errFault
    /\ Len(op[p].info) = 2 /\ op[p].info[1].Size = 2
    /\ op[p].pidx = 2 /\ op[p].off = 1
    /\ op[p].out = <<12>>

\* C20: when a GetObject, GetObjectInfo or DeleteObject on a multipart object has
\* finished, no stream it obtained from ReadFile is still open, the stream over
\* the descriptor file included.
C20_StreamsClosed ==
  \A p \in Procs :
    (pc[p] = "done" /\ op[p].kind \in {"get", "info", "delete"} /\ op[p].pre = "multipart")
    => op[p].ropen = {}

\* C14: a call with an invalid bucket name or an invalid object name returns the
\* validation error of that name, and has made no call to the storage backend when
\* it returns.
C14_RejectedBeforeBackend ==
  \A p \in Procs :
    (pc[p] = "done" /\ op[p].kind \in Kinds /\ (~op[p].nm.bucket \/ ~op[p].nm.object))
    => /\ op[p].err = IF ~op[p].nm.bucket THEN BucketNameInvalid ELSE ObjectNameInvalid
       /\ op[p].calls = 0

\* C15: during a PutObject the destination changes only in the delete of the
\* previous object or in the rename, both after the staging file was written in
\* full and closed and the ancestor check found no object; the rename happens only
\* with the previous object deleted and moves the staged file; and when the
\* ancestor check finds an object, PutObject returns an error at once with the
\* destination unchanged.
C15_PutOrder ==
  [][\A p \in Procs :
       (op[p].kind = "put" /\ pc[p] \notin {"idle", "done"}) =>
         LET o == op[p].obj
             staged == /\ ~op[p].wopen /\ tmp[o].ok
                       /\ tmp[o].data = Copied(op[p].size, op[p].data)
             touched == <<simple'[o], desc'[o], parts'[o]>> # <<simple[o], desc[o], parts[o]>>
         IN /\ (pc[p] \in {"put_parent", "del_ismp", "del_simple", "del_info", "del_parts",
                            "put_rename"} => staged)
            /\ (touched => /\ pc[p] \in {"del_simple", "del_parts", "put_rename"}
                           /\ ~ParentIsObject(o))
            /\ (touched /\ pc[p] = "put_rename"
                  => /\ ObjState(o) = "absent"
                     /\ simple'[o] = tmp[o] /\ ~tmp'[o].ok)
            /\ (pc[p] = "put_parent" /\ ParentIsObject(o)
                  => /\ pc'[p] = "done" /\ op'[p].err # NoErr
                     /\ ~touched)
            /\ (pc[p] = "put_parent" /\ pc'[p] \notin {"put_parent", "done"}
                  => pc'[p] = "del_ismp")
            /\ (pc[p] \in {"del_ismp", "del_simple", "del_info", "del_parts"}
                  => pc'[p] \in {pc[p], "done", "del_simple", "del_info", "del_parts",
                                 "put_rename"})]_vars

C15_Witness ==
  \E p \in Procs :
    /\ pc[p] = "done" /\ op[p].kind = "put" /\ op[p].obj = "a/b"
    /\ op[p].err = errFileAccessDenied /\ ~op[p].flt
    /\ ObjState("a") = "multipart" /\ ObjState("a/b") = "absent"

\* C17: a PutObject that succeeded with size > 0 stored the first size bytes of
\* its input and returned their digest; with size <= 0 it stored the whole input
\* and returned its digest; and the copy of an input shorter than size > 0 ends the
\* call with an error, the bucket unchanged.
C17_SizeBoundedCopy ==
  /\ [](\A p \in Procs :
          (pc[p] = "done" /\ op[p].kind = "put" /\ op[p].err = NoErr) =>
            LET want == IF op[p].size > 0 THEN [i \in 1..op[p].size |-> op[p].data[i]]
                                          ELSE op[p].data
            IN /\ op[p].size > 0 => Len(op[p].data) >= op[p].size
               /\ simple[op[p].obj] = [ok |-> TRUE, data |-> want]
               /\ op[p].ret = Hash(want))
  /\ [][\A p \in Procs :
          (pc[p] = "put_copy" /\ op[p].size > 0 /\ Len(op[p].data) < op[p].size)
          => /\ pc'[p] = "done" /\ op'[p].err # NoErr
             /\ UNCHANGED <<simple, desc, parts>>]_vars

C17_Witness ==
  \E p \in Procs :
    /\ pc[p] = "done" /\ op[p].kind = "put" /\ op[p].err = NoErr
    /\ op[p].size = 1 /\ op[p].data = <<2, 1>>
    /\ simple[op[p].obj].data = <<2>> /\ op[p].pre = "multipart"

\* C18: getObjectInfo stats the path first: a stat that succeeds ends the call with
\* the size, time and md5 of the stat; a stat error other than not-found ends the
\* call with that error, the descriptor unread; only a not-found stat leads to the
\* descriptor, whose size, time and md5 are then returned; with no descriptor
\* either the call ends with the not-found error.
C18_StatThenDescriptor ==
  [][\A p \in Procs :
       LET o == op[p].obj
           faulted == faults' # faults
       IN /\ pc[p] = "info_stat" =>
               /\ (~faulted /\ simple[o].ok) =>
                     /\ pc'[p] = "done" /\ op'[p].err = NoErr
                     /\ op'[p].fi.Size = Len(simple[o].data)
                     /\ op'[p].fi.ModTime = "written"
                     /\ op'[p].fi.MD5Sum = Hash(simple[o].data)
                     /\ op'[p].ropen = op[p].ropen
               /\ faulted =>
                     /\ pc'[p] = "done" /\ op'[p].err = errFault
                     /\ op'[p].ropen = op[p].ropen
               /\ (~faulted /\ ~simple[o].ok) => pc'[p] = "info_desc"
          /\ (pc[p] # "info_desc" /\ pc'[p] = "info_desc") =>
               pc[p] = "info_stat" /\ ~simple[o].ok /\ ~faulted
          /\ (pc[p] = "info_desc" /\ ~faulted) =>
               /\ pc'[p] = "done"
               /\ desc[o].ok =>
                     /\ op'[p].err = NoErr
                     /\ op'[p].fi.Size = desc[o].Size
                     /\ op'[p].fi.ModTime = desc[o].ModTime
                     /\ op'[p].fi.MD5Sum = desc[o].MD5Sum
               /\ ~desc[o].ok => op'[p].err = ObjectNotFound]_vars

C18_Witness ==
  \E p \in Procs :
    /\ pc[p] = "done" /\ op[p].kind = "info" /\ op[p].err = NoErr
    /\ desc[op[p].obj].ok /\ desc[op[p].obj].Parts # << >>
    /\ op[p].fi = [Size |-> desc[op[p].obj].Size, ModTime |-> "completed",
                   MD5Sum |-> desc[op[p].obj].MD5Sum]
    /\ op[p].prev.kind = "info" /\ op[p].prev.err = errFault

\* C19: when two DeleteObject calls that both found the object multipart and whole
\* have returned, with no backend fault, one of them returned success and neither
\* a part file nor the descriptor remains.
C19_RacingDeletesRemove ==
  (\A p \in Procs : pc[p] = "done" /\ op[p].kind = "delete" /\ op[p].pre = "multipart")
  => /\ \E p \in Procs : op[p].err = NoErr
     /\ \A o \in Objects : ObjState(o) = "absent"

====
